---- MODULE Spec2Model ----
(***************************************************************************)
(* A model of the AI Notes plugin (src/main.ts): the entry dialog, the     *)
(* recording view, the transcription-type selector and the                 *)
(* transcribe-and-save pipeline with its progress presenter, together with *)
(* the pure filename sanitization.                                         *)
(*                                                                         *)
(* A string is a sequence of one-character strings.  Every await of the    *)
(* source is a point where another handler may run, so a handler is cut    *)
(* into one action per stretch of code between two awaits.                 *)
(***************************************************************************)
EXTENDS Integers, Sequences, FiniteSets, TLC

\* ------------------------------------------------------------------ bounds

\* Longest string handed to sanitizeFileName by the pure-function check.
MaxLen == 3
\* Longest title the user types into the entry dialog.
MaxTitleLen == 1
\* Pipeline runs (transcribeAndSave calls) and uploaded files in one behaviour.
MaxRuns == 2
\* Recording views opened in one behaviour.
MaxModals == 2
\* Start-button clicks accepted by one recording view before it is redrawn.
MaxClicks == 2
\* Largest value the host clock returns for Date.now().
MaxNow == 1
\* User templates created in one behaviour.
MaxTypes == 2
\* 'Generate with AI' requests in flight at once.
MaxRequests == 1

\* ------------------------------------------------------------------ strings

Null == <<"null">>

\* The characters of /[\\/:*?"<>|]/ (main.ts:175).
ForbiddenChars == {"\\", "/", ":", "*", "?", "\"", "<", ">", "|"}

\* Characters matched by \s and removed by trim(): space and tab stand for the class.
WhitespaceChars == {" ", "\t"}

\* The characters of /[ .]+$/ (main.ts:179).
TrailingChars == {" ", "."}

\* Characters the pure-function check builds its inputs from.
SanChars == {"a", "-", " ", "\t", ".", ":", "/"}

\* Characters the user types into the title input of the entry dialog.
TitleChars == {"a", " ", ".", ":"}

RECURSIVE StringsUpTo(_, _)
StringsUpTo(chars, n) ==
    IF n = 0 THEN {<<>>}
    ELSE LET shorter == StringsUpTo(chars, n - 1)
         IN  shorter \cup {Append(s, c) : s \in shorter, c \in chars}

\* .replace(/[\\/:*?"<>|]/g, '-'), only the first match replaced.
ReplaceFirstForbidden(s) ==
    LET hits == {i \in 1..Len(s) : s[i] \in ForbiddenChars}
    IN  [i \in 1..Len(s) |->
            IF hits # {} /\ i = CHOOSE j \in hits : \A k \in hits : j <= k
            THEN "-" ELSE s[i]]

\* .replace(/[\\/:*?"<>|]/g, '-')
ReplaceForbidden(s) ==
    [i \in 1..Len(s) |-> IF s[i] \in ForbiddenChars THEN "-" ELSE s[i]]

RECURSIVE DropLeading(_, _)
DropLeading(s, chars) ==
    IF s # <<>> /\ Head(s) \in chars THEN DropLeading(Tail(s), chars) ELSE s

RECURSIVE DropTrailing(_, _)
DropTrailing(s, chars) ==
    IF s # <<>> /\ s[Len(s)] \in chars
    THEN DropTrailing(SubSeq(s, 1, Len(s) - 1), chars) ELSE s

\* .replace(/\s+/g, ' ')
RECURSIVE CollapseWhitespace(_)
CollapseWhitespace(s) ==
    IF s = <<>> THEN <<>>
    ELSE IF Head(s) \in WhitespaceChars
         THEN <<" ">> \o CollapseWhitespace(DropLeading(Tail(s), WhitespaceChars))
         ELSE <<Head(s)>> \o CollapseWhitespace(Tail(s))

\* String.prototype.trim()
Trim(s) == DropTrailing(DropLeading(s, WhitespaceChars), WhitespaceChars)

\* sanitizeFileName with /[.]+$/ in place of /[ .]+$/.
SanitizeDotsOnly(name) ==
    DropTrailing(Trim(CollapseWhitespace(ReplaceForbidden(name))), {"."})

\* sanitizeFileName with the first replace lacking the g flag.
SanitizeFirstOnly(name) ==
    DropTrailing(Trim(CollapseWhitespace(ReplaceFirstForbidden(name))), TrailingChars)

\* AiNotes.sanitizeFileName
sanitizeFileName(name) ==
    DropTrailing(Trim(CollapseWhitespace(ReplaceForbidden(name))), TrailingChars)

RECURSIVE Digits(_)
\* Number.prototype.toString() of a non-negative integer
Digits(n) ==
    LET d == <<"0", "1", "2", "3", "4", "5", "6", "7", "8", "9">>
    IN  IF n < 10 THEN <<d[n + 1]>> ELSE Append(Digits(n \div 10), d[(n % 10) + 1])

\* `transcription-${Date.now()}`
TimestampName(now) == <<"transcription-">> \o Digits(now)

\* baseName with the provided title sanitized without being trimmed and tested first.
BaseNameUntested(title, now) ==
    IF title = Null THEN TimestampName(now) ELSE sanitizeFileName(title)

\* providedTitle, safeBase and baseName of transcribeAndSave (main.ts:147-149)
BaseName(title, now) ==
    LET providedTitle == Trim(IF title = Null THEN <<>> ELSE title)
        safeBase == IF providedTitle # <<>> THEN sanitizeFileName(providedTitle) ELSE <<>>
    IN  IF safeBase # <<>> /\ Len(safeBase) > 0 THEN safeBase ELSE TimestampName(now)

\* folderPath, fileName and filePath of transcribeAndSave (main.ts:146-151)
FilePath(title, now) == <<"transcriptions", "/">> \o BaseName(title, now) \o <<".md">>


\* ------------------------------------------------------------------ state

VARIABLES
    geminiApiKey,               \* settings.geminiApiKey: "" or a key
    mediaRecorder,              \* AiNotes.mediaRecorder: a capture id, 0 for null
    stream,                     \* AiNotes.stream: a capture id, 0 for null
    audioChunks,                \* AiNotes.audioChunks: the sizes of the pushed chunks
    currentTranscriptionTitle,  \* AiNotes.currentTranscriptionTitle: Null or a string
    choiceOpen,                 \* RecordingChoiceModal instances that are open
    modals,                     \* the RecordingModal instances, in order of creation
    captures,                   \* one entry per granted getUserMedia call
    selectors,                  \* the TranscriptionTypeModal instances
    runs,                       \* the transcribeAndSave calls with their progress presenter
    vault,                      \* paths of the notes created in the vault
    folderExists,               \* the vault has the folder 'transcriptions'
    templates,                  \* the TranscriptionType objects ever created, by identity
    customTranscriptionTypes,   \* settings.customTranscriptionTypes: identities, in stored order
    rendered,                   \* the rows drawn by the last display() of the settings tab
    displayPending,             \* a handler of the settings tab is about to call display()
    requests,                   \* the generatePrompt calls in flight
    sanStage, sanName, sanOnce, sanTwice   \* the sanitizeFileName harness

pluginVars == <<geminiApiKey, mediaRecorder, stream, audioChunks, currentTranscriptionTitle>>
uiVars == <<choiceOpen, modals, captures, selectors>>
runVars == <<runs, vault, folderExists>>
sanVars == <<sanStage, sanName, sanOnce, sanTwice>>
settingsVars == <<templates, customTranscriptionTypes, rendered, displayPending, requests>>
vars == <<pluginVars, uiVars, runVars, sanVars, settingsVars>>

\* The title of the spec's example, 'Team: Meeting/Alex? '.
ExampleTitle ==
    <<"T", "e", "a", "m", ":", " ", "M", "e", "e", "t", "i", "n", "g", "/",
      "A", "l", "e", "x", "?", " ">>

\* The file name the spec gives for it, 'Team- Meeting-Alex-'.
ExampleName ==
    <<"T", "e", "a", "m", "-", " ", "M", "e", "e", "t", "i", "n", "g", "-",
      "A", "l", "e", "x", "-">>

SanInputs == StringsUpTo(SanChars, MaxLen) \cup {ExampleTitle}

TitleInputs == StringsUpTo(TitleChars, MaxTitleLen)

\* Fields of AiNotes (main.ts:23-27), DEFAULT_SETTINGS merged with the stored data
\* (main.ts:55-57), and an untouched host: no dialog, no capture, no run, and a vault
\* that has no 'transcriptions' folder yet.
InitPlugin ==
    /\ geminiApiKey \in {"", "key"}
    /\ mediaRecorder = 0
    /\ stream = 0
    /\ audioChunks = <<>>
    /\ currentTranscriptionTitle = Null
    /\ choiceOpen = 0
    /\ modals = <<>>
    /\ captures = <<>>
    /\ selectors = <<>>
    /\ runs = <<>>
    /\ vault = {}
    /\ folderExists = FALSE
    /\ templates = <<>>
    /\ customTranscriptionTypes = <<>>
    /\ rendered = <<>>
    /\ displayPending = FALSE
    /\ requests = {}

Init ==
    /\ InitPlugin
    /\ sanStage = 0
    /\ sanName = <<>>
    /\ sanOnce = <<>>
    /\ sanTwice = <<>>

\* ------------------------------------------------------------------ sanitizeFileName harness

InitSan ==
    /\ InitPlugin
    /\ sanStage = 0
    /\ sanName \in SanInputs
    /\ sanOnce = <<>>
    /\ sanTwice = <<>>

\* sanitizeFileName(name)
Sanitize ==
    /\ sanStage = 0
    /\ sanOnce' = sanitizeFileName(sanName)
    /\ sanStage' = 1
    /\ UNCHANGED <<sanName, sanTwice, pluginVars, uiVars, runVars, settingsVars>>

\* sanitizeFileName applied to its own result
SanitizeAgain ==
    /\ sanStage = 1
    /\ sanTwice' = sanitizeFileName(sanOnce)
    /\ sanStage' = 2
    /\ UNCHANGED <<sanName, sanOnce, pluginVars, uiVars, runVars, settingsVars>>

NextSan == Sanitize \/ SanitizeAgain

SpecSan == InitSan /\ [][NextSan]_vars


\* ------------------------------------------------------------------ entry dialog

\* Largest number of entry dialogs open at once.
MaxChoice == 1

\* Sizes of an uploaded file and of the data a recorder gathered: empty or not.
ChunkSizes == {0, 1}

\* The ribbon icon and both commands (main.ts:32-50): a new RecordingChoiceModal opens.
OpenChoice ==
    /\ choiceOpen < MaxChoice
    /\ choiceOpen' = choiceOpen + 1
    /\ UNCHANGED <<pluginVars, modals, captures, selectors, runVars, sanVars, settingsVars>>

\* The 'input' listener of the title field (main.ts:222-225).
EditTitle(val) ==
    /\ choiceOpen > 0
    /\ currentTranscriptionTitle' = val
    /\ UNCHANGED <<geminiApiKey, mediaRecorder, stream, audioChunks, uiVars, runVars, sanVars, settingsVars>>

\* Modal.close() of an entry dialog by the user (main.ts:248-254).
DismissChoice ==
    /\ choiceOpen > 0
    /\ choiceOpen' = choiceOpen - 1
    /\ UNCHANGED <<pluginVars, modals, captures, selectors, runVars, sanVars, settingsVars>>

\* A RecordingModal as constructed (main.ts:367-380) and opened (main.ts:382-418).
NewModal == [open |-> TRUE, ui |-> "start", pending |-> 0,
             timerIntervalId |-> 0, animationFrameId |-> 0]

\* The record button (main.ts:228-231): the dialog closes, a RecordingModal opens.
ClickRecord ==
    /\ choiceOpen > 0
    /\ Len(modals) < MaxModals
    /\ choiceOpen' = choiceOpen - 1
    /\ modals' = Append(modals, NewModal)
    /\ UNCHANGED <<pluginVars, captures, selectors, runVars, sanVars, settingsVars>>

\* A TranscriptionTypeModal as constructed (main.ts:771-776) and opened; `from` is the
\* capture whose recorder produced the blob, 0 for an uploaded file; `types` are the
\* user templates onOpen draws a row for (main.ts:802), held by the rows' closures.
NewSelector(blob, from) ==
    [open |-> TRUE, audioBlob |-> blob, from |-> from, types |-> customTranscriptionTypes]

\* The upload button and the file input's onchange (main.ts:234-236, 256-275) with a
\* file of `size` bytes chosen: the dialog closes and the selector opens on the blob.
\* The await of file.arrayBuffer() touches no state of the plugin and is not cut out.
UploadFile(size) ==
    /\ choiceOpen > 0
    /\ Len(selectors) < MaxRuns
    /\ choiceOpen' = choiceOpen - 1
    /\ selectors' = Append(selectors, NewSelector(size, 0))
    /\ UNCHANGED <<pluginVars, modals, captures, runVars, sanVars, settingsVars>>


\* ------------------------------------------------------------------ recording view

\* cancelAnimationFrame(id) behind `if (id)`: the pending frame of draw loop `id`, if any.
CancelAnimationFrame(caps, id) ==
    [s \in DOMAIN caps |-> IF s = id THEN [caps[s] EXCEPT !.frame = FALSE] ELSE caps[s]]

\* window.clearInterval(id) behind `if (id)`.
ClearInterval(caps, id) ==
    [s \in DOMAIN caps |-> IF s = id THEN [caps[s] EXCEPT !.interval = FALSE] ELSE caps[s]]

\* RecordingModal.onClose (main.ts:510-528) of a view whose fields hold these ids.
OnClose(caps, frameId, timerId) ==
    ClearInterval(CancelAnimationFrame(caps, frameId), timerId)

\* The first statement of stopRecording without the test of the recorder's state.
StopRecorderUntested(caps) ==
    IF mediaRecorder # 0 /\ caps[mediaRecorder].rec # "none"
    THEN [caps EXCEPT ![mediaRecorder].rec = "stopQueued"]
    ELSE caps

\* stopRecording, first statement (main.ts:108-110): stop() makes the recorder
\* inactive at once and queues its stop event.
StopRecorder(caps) ==
    IF mediaRecorder # 0 /\ caps[mediaRecorder].rec = "recording"
    THEN [caps EXCEPT ![mediaRecorder].rec = "stopQueued"]
    ELSE caps

\* stopRecording, second statement (main.ts:111-114): the tracks of this.stream end.
StopTracks(caps) ==
    IF stream # 0 THEN [caps EXCEPT ![stream].live = FALSE] ELSE caps

Closed(modal) == [modal EXCEPT !.open = FALSE, !.ui = "empty"]

\* initRecording without its test of the API key.
KeyUntested(key) == FALSE

\* `!this.settings.geminiApiKey` (main.ts:76)
KeyMissing(key) == key = ""

\* The start button (main.ts:400-408) up to the await in initRecording: with no API
\* key, initRecording returns false and the view closes (main.ts:76-79, 405-407);
\* with one, getUserMedia is pending (main.ts:82).
StartClick(m) ==
    /\ modals[m].open
    /\ modals[m].ui = "start"
    /\ modals[m].pending < MaxClicks
    /\ IF KeyMissing(geminiApiKey)
       THEN /\ modals' = [modals EXCEPT ![m] = Closed(@)]
            /\ captures' = OnClose(captures, modals[m].animationFrameId, modals[m].timerIntervalId)
       ELSE /\ modals' = [modals EXCEPT ![m].pending = @ + 1]
            /\ UNCHANGED captures
    /\ UNCHANGED <<pluginVars, choiceOpen, selectors, runVars, sanVars, settingsVars>>

\* getUserMedia rejects: the catch of initRecording returns false (main.ts:95-98) and
\* the click handler closes the view (main.ts:405-407).
MicDenied(m) ==
    /\ modals[m].pending > 0
    /\ modals' = [modals EXCEPT ![m] = [Closed(@) EXCEPT !.pending = @ - 1]]
    /\ captures' = OnClose(captures, modals[m].animationFrameId, modals[m].timerIntervalId)
    /\ UNCHANGED <<pluginVars, choiceOpen, selectors, runVars, sanVars, settingsVars>>

\* A granted stream of view m: its tracks are live; rec is the state of its MediaRecorder
\* ("none" when none was constructed); interval and frame tell whether the interval and
\* the pending animation frame created for it by showRecordingUI are scheduled.
NewCapture(m, rec) ==
    [modal |-> m, live |-> TRUE, rec |-> rec, interval |-> FALSE, frame |-> FALSE]

\* getUserMedia resolves and this.stream is set (main.ts:82), then the MediaRecorder
\* constructor throws (main.ts:83): the catch returns false and the view closes.
RecorderCtorFails(m) ==
    /\ modals[m].pending > 0
    /\ stream' = Len(captures) + 1
    /\ modals' = [modals EXCEPT ![m] = [Closed(@) EXCEPT !.pending = @ - 1]]
    /\ captures' = OnClose(Append(captures, NewCapture(m, "none")),
                           modals[m].animationFrameId, modals[m].timerIntervalId)
    /\ UNCHANGED <<geminiApiKey, mediaRecorder, audioChunks, currentTranscriptionTitle,
                   choiceOpen, selectors, runVars, sanVars, settingsVars>>

\* initRecording after a granted getUserMedia (main.ts:82-94) and start() (main.ts:101-105).
Granted(m) ==
    /\ modals[m].pending > 0
    /\ stream' = Len(captures) + 1
    /\ mediaRecorder' = Len(captures) + 1
    /\ audioChunks' = <<>>
    /\ UNCHANGED <<geminiApiKey, currentTranscriptionTitle,
                   choiceOpen, selectors, runVars, sanVars, settingsVars>>

\* ... then showRecordingUI returns at `if (!canvasCtx) return` (main.ts:430).
ShowNoCanvas(m) ==
    /\ Granted(m)
    /\ modals' = [modals EXCEPT ![m].pending = @ - 1, ![m].ui = "blank"]
    /\ captures' = Append(captures, NewCapture(m, "recording"))

\* ... then showRecordingUI throws after setInterval (main.ts:435-447): the catch
\* closes the view (main.ts:504-507).
ShowThrows(m) ==
    /\ Granted(m)
    /\ LET id == Len(captures) + 1
           scheduled == [NewCapture(m, "recording") EXCEPT !.interval = TRUE]
       IN  /\ modals' = [modals EXCEPT ![m] = [Closed(@) EXCEPT !.pending = @ - 1,
                                                                !.timerIntervalId = id]]
           /\ captures' = OnClose(Append(captures, scheduled), modals[m].animationFrameId, id)

\* ... then showRecordingUI runs to its end (main.ts:420-503): the interval and the
\* first frame of a new draw loop are scheduled and the stop button replaces the view's content.
ShowRecordingUI(m) ==
    /\ Granted(m)
    /\ LET id == Len(captures) + 1
           scheduled == [NewCapture(m, "recording") EXCEPT !.interval = TRUE, !.frame = TRUE]
       IN  /\ modals' = [modals EXCEPT ![m].pending = @ - 1, ![m].ui = "recording",
                                       ![m].timerIntervalId = id, ![m].animationFrameId = id]
           /\ captures' = Append(captures, scheduled)

\* A pending frame of draw loop s fires (main.ts:452-454): analyser is set, so the loop
\* requests its next frame and stores the id.
Draw(s) ==
    /\ captures[s].frame
    /\ modals' = [modals EXCEPT ![captures[s].modal].animationFrameId = s]
    /\ UNCHANGED <<pluginVars, choiceOpen, captures, selectors, runVars, sanVars, settingsVars>>

\* The stop button (main.ts:489-498).
StopClick(m) ==
    /\ modals[m].open
    /\ modals[m].ui = "recording"
    /\ stream' = 0
    /\ LET frameId == modals[m].animationFrameId
           timerId == modals[m].timerIntervalId
           stopped == StopTracks(StopRecorder(captures))
           cancelled == ClearInterval(CancelAnimationFrame(stopped, frameId), timerId)
       IN  captures' = OnClose(cancelled, frameId, timerId)
    /\ modals' = [modals EXCEPT ![m] = Closed(@)]
    /\ UNCHANGED <<geminiApiKey, mediaRecorder, audioChunks, currentTranscriptionTitle,
                   choiceOpen, selectors, runVars, sanVars, settingsVars>>

\* The user dismisses the recording view: Modal.close() runs onClose (main.ts:510-528).
DismissRecording(m) ==
    /\ modals[m].open
    /\ captures' = OnClose(captures, modals[m].animationFrameId, modals[m].timerIntervalId)
    /\ modals' = [modals EXCEPT ![m] = Closed(@)]
    /\ UNCHANGED <<pluginVars, choiceOpen, selectors, runVars, sanVars, settingsVars>>

RECURSIVE Sum(_)
Sum(sizes) == IF sizes = <<>> THEN 0 ELSE Head(sizes) + Sum(Tail(sizes))

\* The task queued by MediaRecorder.stop(): 'dataavailable' with the `size` bytes
\* gathered (main.ts:86-88), then 'stop' (main.ts:90-93): the selector opens on the blob.
StopEvent(s, size) ==
    /\ captures[s].rec = "stopQueued"
    /\ captures' = [captures EXCEPT ![s].rec = "stopped"]
    /\ audioChunks' = Append(audioChunks, size)
    /\ selectors' = Append(selectors, NewSelector(Sum(audioChunks'), s))
    /\ UNCHANGED <<geminiApiKey, mediaRecorder, stream, currentTranscriptionTitle,
                   choiceOpen, modals, runVars, sanVars, settingsVars>>


\* ------------------------------------------------------------------ selector and pipeline

\* TranscriptionProgressModal.updateStatus (main.ts:678-681); log lists the successive
\* values of the presenter's status field.
updateStatus(run, status) ==
    [run EXCEPT !.status = status,
                !.log = IF status = run.status THEN @ ELSE Append(@, status)]

\* defaultTypes of TranscriptionTypeModal.onOpen (main.ts:784-788); a text is a
\* sequence of pieces, the empty string being <<>>.
defaultTypes ==
    << [name |-> <<"Simple">>, prompt |-> <<"Transcribe the audio.">>],
       [name |-> <<"Standard">>,
        prompt |-> <<"Transcribe the audio.", " Also, extract key takeaways and a summary.">>],
       [name |-> <<"Detailed">>,
        prompt |-> <<"Transcribe the audio.", " Also, extract key takeaways, a summary,",
                     " action items, and a list of questions asked.">>] >>

\* The rows of selector sel in the order onOpen draws them (main.ts:790-812): the
\* built-in types, then the user templates found in the settings when it opened.
Entries(sel) ==
    [e \in 1..(Len(defaultTypes) + Len(sel.types)) |->
        IF e <= Len(defaultTypes) THEN defaultTypes[e]
        ELSE templates[sel.types[e - Len(defaultTypes)]]]

\* type.prompt with an empty text replaced by the prompt of 'Simple'.
PromptOrDefault(sel, e) ==
    IF Entries(sel)[e].prompt = <<>> THEN defaultTypes[1].prompt ELSE Entries(sel)[e].prompt

\* type.prompt as the onClick of row e reads it (main.ts:797, 809).
Prompt(sel, e) == Entries(sel)[e].prompt

\* transcribeAndSave with a test of the blob's size first: an empty blob is refused.
NewRunGuarded(blob, prompt) ==
    IF blob = 0
    THEN [pc |-> "failed", status |-> "error", log |-> <<"error">>,
          open |-> FALSE, dismissed |-> FALSE, timer |-> FALSE,
          title |-> Null, now |-> 0, folderError |-> FALSE,
          audioBlob |-> 0, prompt |-> Null, apiKey |-> "",
          calls |-> 0, notices |-> 1, opens |-> 0, row |-> 0]
    ELSE [pc |-> "encoding", status |-> "transcribing", log |-> <<"transcribing">>,
          open |-> TRUE, dismissed |-> FALSE, timer |-> FALSE,
          title |-> Null, now |-> 0, folderError |-> FALSE,
          audioBlob |-> blob, prompt |-> prompt, apiKey |-> geminiApiKey,
          calls |-> 0, notices |-> 0, opens |-> 0, row |-> 0]

\* transcribeAndSave up to the first await (main.ts:138-143, 118-121): a presenter is
\* constructed with status 'transcribing' (main.ts:619), opened and told 'transcribing';
\* transcribe builds its client from the API key (main.ts:118) and blobToBase64 is pending.
\* calls, notices and opens count the generateContent calls, the notices and the
\* openLinkText calls of the run; row is the row of the selector whose button started it.
NewRun(blob, prompt) ==
    updateStatus([pc |-> "encoding", status |-> "transcribing", log |-> <<"transcribing">>,
                  open |-> TRUE, dismissed |-> FALSE, timer |-> FALSE,
                  title |-> Null, now |-> 0, folderError |-> FALSE,
                  audioBlob |-> blob, prompt |-> prompt, apiKey |-> geminiApiKey,
                  calls |-> 0, notices |-> 0, opens |-> 0, row |-> 0],
                 "transcribing")

\* transcribeAndSave returns: its parameters and locals are gone.
Return(run, pc) ==
    [run EXCEPT !.pc = pc, !.title = Null, !.now = 0, !.folderError = FALSE,
                !.audioBlob = 0, !.prompt = Null, !.apiKey = "", !.row = 0]

\* The catch of transcribeAndSave (main.ts:165-169): status 'error', a notice, and a
\* timeout that will close the presenter.
Catch(run) ==
    [Return(updateStatus(run, "error"), "failed") EXCEPT !.timer = TRUE, !.notices = @ + 1]

\* The Select button of row e of the selector (main.ts:794-799, 806-811):
\* transcribeAndSave starts on the selector's blob with the row's prompt and the
\* selector closes.
SelectType(i, e) ==
    /\ selectors[i].open
    /\ Len(runs) < MaxRuns
    /\ e \in DOMAIN Entries(selectors[i])
    /\ runs' = Append(runs, [NewRun(selectors[i].audioBlob, Prompt(selectors[i], e))
                                EXCEPT !.row = e])
    /\ selectors' = [selectors EXCEPT ![i].open = FALSE]
    /\ UNCHANGED <<pluginVars, choiceOpen, modals, captures, vault, folderExists, sanVars, settingsVars>>

\* The user dismisses the selector (main.ts:820-824).
DismissSelector(i) ==
    /\ selectors[i].open
    /\ selectors' = [selectors EXCEPT ![i].open = FALSE]
    /\ UNCHANGED <<pluginVars, choiceOpen, modals, captures, runVars, sanVars, settingsVars>>

RunFrame == UNCHANGED <<geminiApiKey, mediaRecorder, stream, audioChunks, uiVars, sanVars, settingsVars>>

\* generateContent is called (main.ts:123-131) with the encoded blob and the prompt.
Issued(run) == [run EXCEPT !.pc = "inferring", !.calls = @ + 1]

\* blobToBase64 resolves (main.ts:121, 182-193) and generateContent is called (main.ts:123).
EncodeOk(r) ==
    /\ runs[r].pc = "encoding"
    /\ runs' = [runs EXCEPT ![r] = Issued(@)]
    /\ UNCHANGED <<currentTranscriptionTitle, vault, folderExists>>
    /\ RunFrame

\* blobToBase64 rejects (main.ts:190).
EncodeFails(r) ==
    /\ runs[r].pc = "encoding"
    /\ runs' = [runs EXCEPT ![r] = Catch(@)]
    /\ UNCHANGED <<currentTranscriptionTitle, vault, folderExists>>
    /\ RunFrame

\* The entry of the save stage (main.ts:145-151) with the status left at 'transcribing'.
BeginSaveSilent(run, title, now) ==
    [run EXCEPT !.pc = "mkdir", !.title = title, !.now = now,
                !.prompt = Null, !.apiKey = "", !.row = 0]

\* transcribe returns (main.ts:133, 143): status 'saving', the file path is derived from
\* the pending title and Date.now() (main.ts:145-151), createFolder is called (main.ts:154).
BeginSave(run, title, now) ==
    [updateStatus(run, "saving") EXCEPT !.pc = "mkdir", !.title = title, !.now = now,
                                        !.prompt = Null, !.apiKey = "", !.row = 0]

InferOk(r, now) ==
    /\ runs[r].pc = "inferring"
    /\ runs' = [runs EXCEPT ![r] = BeginSave(@, currentTranscriptionTitle, now)]
    /\ UNCHANGED <<currentTranscriptionTitle, vault, folderExists>>
    /\ RunFrame

\* A rejected generateContent answered by a second call instead of the catch.
RejectedRetried(run) == [run EXCEPT !.calls = @ + 1]

\* The rejection of generateContent leaves transcribe (main.ts:123, 143) and reaches
\* the catch of transcribeAndSave (main.ts:165).
Rejected(run) == Catch(run)

\* generateContent rejects or response.text() throws (main.ts:123-133).
InferFails(r) ==
    /\ runs[r].pc = "inferring"
    /\ runs' = [runs EXCEPT ![r] = Rejected(@)]
    /\ UNCHANGED <<currentTranscriptionTitle, vault, folderExists>>
    /\ RunFrame

\* createFolder creates the folder (main.ts:154); vault.create is called (main.ts:160).
CreateFolderOk(r) ==
    /\ runs[r].pc = "mkdir"
    /\ ~folderExists
    /\ folderExists' = TRUE
    /\ runs' = [runs EXCEPT ![r].pc = "creating"]
    /\ UNCHANGED <<currentTranscriptionTitle, vault>>
    /\ RunFrame

\* The throw of createFolder left to the catch of transcribeAndSave.
NotSwallowed(run, exists) == Catch(run)

\* The inner catch (main.ts:153-157) swallows the throw of createFolder and vault.create
\* is called (main.ts:160); folderError tells that the throw was 'Folder already exists'.
Swallowed(run, exists) == [run EXCEPT !.pc = "creating", !.folderError = exists]

\* createFolder throws: because the folder exists, or for another reason when it
\* does not (main.ts:154).
CreateFolderThrows(r) ==
    /\ runs[r].pc = "mkdir"
    /\ runs' = [runs EXCEPT ![r] = Swallowed(@, folderExists)]
    /\ UNCHANGED <<currentTranscriptionTitle, vault, folderExists>>
    /\ RunFrame

\* The path of the note of a run that has entered the save stage.
filePath(run) == FilePath(run.title, run.now)

\* The statements after a successful vault.create with the title kept.
SavedKeepsTitle(title) == title

\* `this.currentTranscriptionTitle = null` after a successful vault.create (main.ts:161-162).
Saved(title) == Null

\* progress.close() and the call of openLinkText, preceded by updateStatus('completed').
CreatedCompleted(run) ==
    [updateStatus(run, "completed") EXCEPT !.pc = "opening", !.open = FALSE,
                                           !.folderError = FALSE, !.opens = @ + 1]

\* progress.close() and the call of openLinkText (main.ts:163-164).
Created(run) ==
    [run EXCEPT !.pc = "opening", !.open = FALSE, !.folderError = FALSE, !.opens = @ + 1]

\* vault.create resolves (main.ts:160): the title is reset, the presenter is closed and
\* openLinkText is called (main.ts:162-164).
CreateOk(r) ==
    /\ runs[r].pc = "creating"
    /\ folderExists
    /\ vault' = vault \cup {filePath(runs[r])}
    /\ currentTranscriptionTitle' = Saved(currentTranscriptionTitle)
    /\ runs' = [runs EXCEPT ![r] = Created(@)]
    /\ UNCHANGED folderExists
    /\ RunFrame

\* vault.create rejects (main.ts:160).
CreateFails(r) ==
    /\ runs[r].pc = "creating"
    /\ runs' = [runs EXCEPT ![r] = Catch(@)]
    /\ UNCHANGED <<currentTranscriptionTitle, vault, folderExists>>
    /\ RunFrame

\* openLinkText resolves (main.ts:164): transcribeAndSave returns.
OpenOk(r) ==
    /\ runs[r].pc = "opening"
    /\ runs' = [runs EXCEPT ![r] = Return(@, "done")]
    /\ UNCHANGED <<currentTranscriptionTitle, vault, folderExists>>
    /\ RunFrame

\* openLinkText rejects (main.ts:164).
OpenFails(r) ==
    /\ runs[r].pc = "opening"
    /\ runs' = [runs EXCEPT ![r] = Catch(@)]
    /\ UNCHANGED <<currentTranscriptionTitle, vault, folderExists>>
    /\ RunFrame

\* The timeout set by the catch fires (main.ts:168): the presenter closes.
ErrorTimeout(r) ==
    /\ runs[r].timer
    /\ runs' = [runs EXCEPT ![r].timer = FALSE, ![r].open = FALSE]
    /\ UNCHANGED <<currentTranscriptionTitle, vault, folderExists>>
    /\ RunFrame

\* Closing the presenter taken as a cancellation of the run.
DismissedCancels(run) == [Catch(run) EXCEPT !.open = FALSE, !.dismissed = TRUE]

\* TranscriptionProgressModal.onClose (main.ts:683-687) after Modal.close() by the
\* user: the presenter is gone and transcribeAndSave is not told.
Dismissed(run) == [run EXCEPT !.open = FALSE, !.dismissed = TRUE]

\* The user dismisses the progress presenter (main.ts:683-687).
DismissProgress(r) ==
    /\ runs[r].open
    /\ runs' = [runs EXCEPT ![r] = Dismissed(@)]
    /\ UNCHANGED <<currentTranscriptionTitle, vault, folderExists>>
    /\ RunFrame

\* ------------------------------------------------------------------ settings tab

\* Values typed into the API key field.
KeyInputs == {"", "key"}

\* Values typed into the Name field of a user template.
NameInputs == {<<"Simple">>, <<"x">>}

\* Values typed into the Prompt field of a user template.
PromptInputs == {<<>>, <<"p">>}

\* The text the service returns to generatePrompt for a type name (main.ts:69-72).
Generated(typeName) == <<"generated for ">> \o typeName

PluginFrame ==
    UNCHANGED <<mediaRecorder, stream, audioChunks, currentTranscriptionTitle,
                uiVars, runVars, sanVars>>

\* onChange of the API key field (main.ts:873-876).
SetApiKey(value) ==
    /\ value # geminiApiKey
    /\ geminiApiKey' = value
    /\ UNCHANGED settingsVars
    /\ PluginFrame

\* customTranscriptionTypes[index] as a handler of row `index` finds it: the identity
\* of the template stored there now, 0 when the list has become shorter.
At(index) ==
    IF index \in DOMAIN customTranscriptionTypes THEN customTranscriptionTypes[index] ELSE 0

\* 'Add New Type' (main.ts:967-971) up to the await of saveSettings: an empty template
\* is pushed; display() follows.
AddType ==
    /\ Len(templates) < MaxTypes
    /\ templates' = Append(templates, [name |-> <<>>, prompt |-> <<>>])
    /\ customTranscriptionTypes' = Append(customTranscriptionTypes, Len(templates) + 1)
    /\ displayPending' = TRUE
    /\ UNCHANGED <<geminiApiKey, rendered, requests>>
    /\ PluginFrame

\* display() (main.ts:862-974) called by a handler after its saveSettings: the rows
\* are drawn anew from the stored list, row k closing over the template and the index k.
Display ==
    /\ displayPending
    /\ rendered' = customTranscriptionTypes
    /\ displayPending' = FALSE
    /\ UNCHANGED <<geminiApiKey, templates, customTranscriptionTypes, requests>>
    /\ PluginFrame

\* onChange of the Name field of row k (main.ts:909-912); with no template at the
\* index the assignment throws and nothing changes.
EditName(k, value) ==
    /\ k \in DOMAIN rendered
    /\ At(k) # 0
    /\ templates[At(k)].name # value
    /\ templates' = [templates EXCEPT ![At(k)].name = value]
    /\ UNCHANGED <<geminiApiKey, customTranscriptionTypes, rendered, displayPending, requests>>
    /\ PluginFrame

\* onChange of the Prompt field of row k (main.ts:931-934).
EditPrompt(k, value) ==
    /\ k \in DOMAIN rendered
    /\ At(k) # 0
    /\ templates[At(k)].prompt # value
    /\ templates' = [templates EXCEPT ![At(k)].prompt = value]
    /\ UNCHANGED <<geminiApiKey, customTranscriptionTypes, rendered, displayPending, requests>>
    /\ PluginFrame

\* 'Generate with AI' of row k (main.ts:941-945) up to the await in generatePrompt:
\* the request carries the name of the row's template as it is now, and the handler
\* keeps the row's template and index.
Generate(k) ==
    /\ k \in DOMAIN rendered
    /\ Cardinality(requests) < MaxRequests
    /\ requests' = requests \cup {[type |-> rendered[k], index |-> k,
                                    typeName |-> templates[rendered[k]].name]}
    /\ UNCHANGED <<geminiApiKey, templates, customTranscriptionTypes, rendered, displayPending>>
    /\ PluginFrame

\* The template that receives the generated prompt of request q (main.ts:946):
\* the one stored at the row's index when the request completes.
Receiver(q) == At(q.index)

\* generatePrompt resolves (main.ts:945-948, 952): the prompt is stored at the row's
\* index and display() follows; with no template at the index the assignment throws
\* and the catch shows a notice (main.ts:949-950).
GenerateOk(q) ==
    /\ q \in requests
    /\ requests' = requests \ {q}
    /\ IF Receiver(q) # 0
       THEN /\ templates' = [templates EXCEPT ![Receiver(q)].prompt = Generated(q.typeName)]
            /\ displayPending' = TRUE
       ELSE UNCHANGED <<templates, displayPending>>
    /\ UNCHANGED <<geminiApiKey, customTranscriptionTypes, rendered>>
    /\ PluginFrame

\* generatePrompt rejects (main.ts:949-953).
GenerateFails(q) ==
    /\ q \in requests
    /\ requests' = requests \ {q}
    /\ UNCHANGED <<geminiApiKey, templates, customTranscriptionTypes, rendered, displayPending>>
    /\ PluginFrame

\* Array.prototype.splice(index, 1)
Splice(list, index) ==
    [j \in 1..(Len(list) - (IF index \in DOMAIN list THEN 1 ELSE 0)) |->
        IF j < index THEN list[j] ELSE list[j + 1]]

\* 'Delete' of row k (main.ts:957-961) up to the await of saveSettings; display() follows.
DeleteType(k) ==
    /\ k \in DOMAIN rendered
    /\ customTranscriptionTypes' = Splice(customTranscriptionTypes, k)
    /\ displayPending' = TRUE
    /\ UNCHANGED <<geminiApiKey, templates, rendered, requests>>
    /\ PluginFrame

\* ------------------------------------------------------------------ specifications

Modals == DOMAIN modals
Captures == DOMAIN captures
Selectors == DOMAIN selectors
Runs == DOMAIN runs

Dialog ==
    \/ DismissChoice
    \/ \E val \in TitleInputs : EditTitle(val)
    \/ \E size \in ChunkSizes : UploadFile(size)

Recording ==
    \/ \E m \in Modals : StartClick(m)
    \/ \E m \in Modals : MicDenied(m)
    \/ \E m \in Modals : RecorderCtorFails(m)
    \/ \E m \in Modals : ShowNoCanvas(m)
    \/ \E m \in Modals : ShowThrows(m)
    \/ \E m \in Modals : ShowRecordingUI(m)
    \/ \E s \in Captures : Draw(s)
    \/ \E m \in Modals : StopClick(m)
    \/ \E m \in Modals : DismissRecording(m)
    \/ \E s \in Captures : \E size \in ChunkSizes : StopEvent(s, size)

Pipeline ==
    \/ \E i \in Selectors : \E e \in 1..(Len(defaultTypes) + MaxTypes) : SelectType(i, e)
    \/ \E i \in Selectors : DismissSelector(i)
    \/ \E r \in Runs : EncodeOk(r)
    \/ \E r \in Runs : EncodeFails(r)
    \/ \E r \in Runs : \E now \in 1..MaxNow : InferOk(r, now)
    \/ \E r \in Runs : InferFails(r)
    \/ \E r \in Runs : CreateFolderOk(r)
    \/ \E r \in Runs : CreateFolderThrows(r)
    \/ \E r \in Runs : CreateOk(r)
    \/ \E r \in Runs : CreateFails(r)
    \/ \E r \in Runs : OpenOk(r)
    \/ \E r \in Runs : OpenFails(r)
    \/ \E r \in Runs : ErrorTimeout(r)
    \/ \E r \in Runs : DismissProgress(r)

Rows == DOMAIN rendered

Settings ==
    \/ \E value \in KeyInputs : SetApiKey(value)
    \/ AddType
    \/ Display
    \/ \E k \in Rows : \E value \in NameInputs : EditName(k, value)
    \/ \E k \in Rows : \E value \in PromptInputs : EditPrompt(k, value)
    \/ \E k \in Rows : Generate(k)
    \/ \E q \in requests : GenerateOk(q)
    \/ \E q \in requests : GenerateFails(q)
    \/ \E k \in Rows : DeleteType(k)

\* Every handler, with no restriction on the user.
Next == OpenChoice \/ Dialog \/ ClickRecord \/ Recording \/ Pipeline \/ Settings

Spec == Init /\ [][Next]_vars

\* The capture stage: the user records and dismisses, and picks no transcription type.
NextCapture ==
    \/ OpenChoice
    \/ DismissChoice
    \/ ClickRecord
    \/ Recording
    \/ \E i \in Selectors : DismissSelector(i)

SpecCapture == Init /\ [][NextCapture]_vars

\* The pipeline entered through file upload: the user records nothing.
NextUpload == OpenChoice \/ Dialog \/ Pipeline

SpecUpload == Init /\ [][NextUpload]_vars

\* No dialog is open, no capture is pending or recording and no run is in flight.
Quiet ==
    /\ choiceOpen = 0
    /\ \A m \in Modals : ~modals[m].open /\ modals[m].pending = 0
    /\ \A s \in Captures : captures[s].rec \in {"none", "stopped"}
    /\ \A i \in Selectors : ~selectors[i].open
    /\ \A r \in Runs : runs[r].pc \in {"done", "failed"}

\* Sequential use of the upload pipeline: the entry dialog is opened only when the
\* plugin is quiet.
NextSeq == (Quiet /\ OpenChoice) \/ Dialog \/ Pipeline

SpecSeq == Init /\ [][NextSeq]_vars

\* The settings tab alone: the user edits the templates and asks for generated prompts.
NextGenerate ==
    \/ AddType
    \/ Display
    \/ \E k \in Rows : \E value \in NameInputs : EditName(k, value)
    \/ \E k \in Rows : \E value \in PromptInputs : EditPrompt(k, value)
    \/ \E k \in Rows : Generate(k)
    \/ \E q \in requests : GenerateOk(q)
    \/ \E q \in requests : GenerateFails(q)
    \/ \E k \in Rows : DeleteType(k)

SpecGenerate == Init /\ [][NextGenerate]_vars

\* The plugin loaded with an API key stored.
InitSelect ==
    /\ Init
    /\ geminiApiKey = "key"

\* No selector is open.
NoSelector == \A i \in Selectors : ~selectors[i].open

\* The type selector on an uploaded file, one selector at a time, with the templates
\* edited and deleted while it is open.
NextSelect ==
    \/ AddType
    \/ Display
    \/ \E k \in Rows : \E value \in NameInputs : EditName(k, value)
    \/ \E k \in Rows : \E value \in PromptInputs : EditPrompt(k, value)
    \/ \E k \in Rows : DeleteType(k)
    \/ (NoSelector /\ OpenChoice)
    \/ \E size \in ChunkSizes : UploadFile(size)
    \/ \E i \in Selectors : \E e \in 1..(Len(defaultTypes) + MaxTypes) : SelectType(i, e)
    \/ \E i \in Selectors : DismissSelector(i)

SpecSelect == InitSelect /\ [][NextSelect]_vars

\* From a recording to the note, one recording after the other, with the API key
\* changed at any time: the entry dialog is opened only when the plugin is quiet.
NextRecord ==
    \/ (Quiet /\ OpenChoice)
    \/ DismissChoice
    \/ ClickRecord
    \/ Recording
    \/ Pipeline
    \/ \E value \in KeyInputs : SetApiKey(value)

SpecRecord == Init /\ [][NextRecord]_vars

\* From the entry dialog to the inference call, by recording or by upload, one at a
\* time and with the API key changed at any time; the save stage is left out.
NextKey ==
    \/ (Quiet /\ OpenChoice)
    \/ DismissChoice
    \/ \E size \in ChunkSizes : UploadFile(size)
    \/ ClickRecord
    \/ Recording
    \/ \E i \in Selectors : \E e \in 1..(Len(defaultTypes) + MaxTypes) : SelectType(i, e)
    \/ \E i \in Selectors : DismissSelector(i)
    \/ \E r \in Runs : EncodeOk(r)
    \/ \E r \in Runs : EncodeFails(r)
    \/ \E r \in Runs : InferFails(r)
    \/ \E value \in KeyInputs : SetApiKey(value)

SpecKey == Init /\ [][NextKey]_vars


\* ------------------------------------------------------------------ progress presenter (C1-C3)

Transcribing == "transcribing"
Saving == "saving"
Completed == "completed"
Failed == "error"

\* Run r ends in the error state in this step.
Fails(r) == runs[r].pc \notin {"done", "failed"} /\ runs'[r].pc = "failed"

\* C1: a run whose transcribe call, note creation and open request all succeed has
\* taken the presenter through exactly transcribing, saving, completed.
C1_SuccessSequence ==
    \A r \in Runs : runs[r].pc = "done" => runs[r].log = <<Transcribing, Saving, Completed>>

\* C2: a run whose transcribe call fails takes the presenter through exactly
\* transcribing, error; a run whose note creation or open request fails takes it
\* through exactly transcribing, saving, error.
C2_FailureSequences ==
    [][\A r \in Runs : Fails(r) =>
          /\ runs[r].pc \in {"encoding", "inferring", "creating", "opening"}
          /\ runs'[r].log = IF runs[r].pc \in {"encoding", "inferring"}
                            THEN <<Transcribing, Failed>>
                            ELSE <<Transcribing, Saving, Failed>>]_vars

\* One run has failed in transcribe and another in the save stage.
C2_Witness ==
    \E r1, r2 \in Runs :
        /\ runs[r1].pc = "failed" /\ runs[r1].log = <<Transcribing, Failed>>
        /\ runs[r2].pc = "failed" /\ runs[r2].log = <<Transcribing, Saving, Failed>>

\* The moves the presenter's status may make.
AllowedMoves ==
    {<<Transcribing, Saving>>, <<Saving, Completed>>,
     <<Transcribing, Failed>>, <<Saving, Failed>>}

\* C3: a presenter starts in transcribing, its status only moves along
\* transcribing->saving, saving->completed, transcribing->error or saving->error (so
\* it never moves back and never leaves completed or error), and each run gets a new presenter.
C3_LinearStatus ==
    [][/\ \A r \in Runs :
             runs'[r].status # runs[r].status =>
                 <<runs[r].status, runs'[r].status>> \in AllowedMoves
       /\ \A r \in (DOMAIN runs') \ Runs :
             runs'[r].status = Transcribing /\ runs'[r].log = <<Transcribing>>]_vars

\* A run has ended in error after saving, and a later run has its own presenter in transcribing.
C3_Witness ==
    \E r1, r2 \in Runs :
        /\ r1 < r2
        /\ runs[r1].status = Failed /\ runs[r1].log = <<Transcribing, Saving, Failed>>
        /\ runs[r2].status = Transcribing

\* ------------------------------------------------------------------ sanitizeFileName (C4-C5)

\* C4: sanitizeFileName applied to its own result returns that result.
C4_Idempotent == sanStage = 2 => sanTwice = sanOnce

\* sanitizeFileName changed a name into a non-empty one and was applied again.
C4_Witness == sanStage = 2 /\ sanOnce # sanName /\ sanOnce # <<>>

\* C5: the result of sanitizeFileName has none of the characters \ / : * ? " < > |,
\* no two adjacent whitespace characters, no whitespace at its start and no dot or
\* space at its end, and 'Team: Meeting/Alex? ' yields 'Team- Meeting-Alex-'.
C5_SanitizedForm ==
    sanStage >= 1 =>
        /\ \A i \in 1..Len(sanOnce) : sanOnce[i] \notin ForbiddenChars
        /\ \A i \in 1..(Len(sanOnce) - 1) :
              ~(sanOnce[i] \in WhitespaceChars /\ sanOnce[i + 1] \in WhitespaceChars)
        /\ sanOnce # <<>> =>
              /\ sanOnce[1] \notin WhitespaceChars
              /\ sanOnce[Len(sanOnce)] \notin {".", " "}
        /\ sanName = ExampleTitle => sanOnce = ExampleName

\* The example title has been sanitized.
C5_Witness == sanStage = 1 /\ sanName = ExampleTitle /\ sanOnce = ExampleName


\* ------------------------------------------------------------------ note path and title (C6-C7)

\* The name C6 gives the note: the sanitized pending title when there is one and its
\* sanitized form is not empty, the timestamp name in every other case.
ClaimedName(title, now) ==
    IF title # Null /\ sanitizeFileName(title) # <<>>
    THEN sanitizeFileName(title)
    ELSE TimestampName(now)

\* Run r enters the save stage in this step.
BeginsSave(r) == runs[r].pc = "inferring" /\ runs'[r].pc = "mkdir"

\* Run r has its note created in this step.
CreatesNote(r) == runs[r].pc = "creating" /\ runs'[r].pc = "opening"

\* C6: every note a run creates is at transcriptions/<name>.md, <name> being the
\* sanitized pending title read when the save began if that is non-empty, and
\* transcription-<digits of the clock value read then> otherwise.
C6_NotePath ==
    [][/\ \A r \in Runs :
             /\ BeginsSave(r) =>
                   /\ runs'[r].title = currentTranscriptionTitle
                   /\ runs'[r].now \in 1..MaxNow
             /\ CreatesNote(r) =>
                   vault' = vault \cup
                       {<<"transcriptions", "/">>
                            \o ClaimedName(runs[r].title, runs[r].now) \o <<".md">>}
       /\ vault' # vault => \E r \in Runs : CreatesNote(r)]_vars

\* A note was created under the timestamp name for a title made only of dots, and
\* another under a sanitized title.
C6_Witness ==
    /\ \E r \in Runs :
          /\ runs[r].pc = "opening"
          /\ runs[r].title = <<".">>
          /\ <<"transcriptions", "/">> \o TimestampName(runs[r].now) \o <<".md">> \in vault
    /\ <<"transcriptions", "/", "-", ".md">> \in vault

\* The title as the dialog and the save read it, `title ?? ''` (main.ts:147, 221).
Shown(title) == IF title = Null THEN <<>> ELSE title

\* C7 as claimed: a run that ends successfully leaves the pending title null, and a
\* run that ends in error (failed transcribe, note creation or open request) leaves
\* the title the user sees at the value it had when the save began.
C7_ClearedOnlyOnSuccess ==
    [][\A r \in Runs :
          /\ (runs[r].pc = "opening" /\ runs'[r].pc = "done") =>
                currentTranscriptionTitle' = Null
          /\ Fails(r) =>
                Shown(currentTranscriptionTitle') =
                    IF runs[r].pc \in {"encoding", "inferring"}
                    THEN Shown(currentTranscriptionTitle)
                    ELSE Shown(runs[r].title)]_vars

\* C7 as amended: the pending title is cleared exactly when the note creation
\* succeeds.  After a run that ends successfully, or in error because the open
\* request failed, it is null; after a run that ends in error because transcribe or
\* the note creation failed, it has the value it had when the save began.
C7_ClearedWhenSaved ==
    [][\A r \in Runs :
          /\ CreatesNote(r) => currentTranscriptionTitle' = Null
          /\ (runs[r].pc = "opening" /\ runs'[r].pc \in {"done", "failed"}) =>
                currentTranscriptionTitle' = Null
          /\ (Fails(r) /\ runs[r].pc \in {"encoding", "inferring"}) =>
                currentTranscriptionTitle' = currentTranscriptionTitle
          /\ (Fails(r) /\ runs[r].pc = "creating") =>
                currentTranscriptionTitle' = runs[r].title]_vars

\* A run that began its save with a title failed in note creation and the title is
\* still there, and the next run has begun its save with it.
C7_Witness ==
    \E r1, r2 \in Runs :
        /\ r1 < r2
        /\ runs[r1].pc = "failed" /\ runs[r1].log = <<Transcribing, Saving, Failed>>
        /\ runs[r2].pc = "mkdir"
        /\ runs[r2].title = currentTranscriptionTitle
        /\ currentTranscriptionTitle \notin {Null, <<>>}

\* ------------------------------------------------------------------ capture stage (C8-C10)

\* Selectors opened on the recording of capture s.
SelectorsFrom(s) == {i \in Selectors : selectors[i].from = s}

C9_StreamReleased ==
    \A s \in Captures : captures[s].live => modals[captures[s].modal].open

\* C10: once a recording view is closed, none of the intervals and animation frames
\* it created is scheduled.
C10_NoDanglingLoops ==
    \A s \in Captures :
        (captures[s].interval \/ captures[s].frame) => modals[captures[s].modal].open

\* ------------------------------------------------------------------ type selector (C11)

\* The instruction text C11 gives row e of a selector: the three fixed texts, then the
\* texts of the user templates the selector found stored, in their order.
ClaimedText(sel, e) ==
    CASE e = 1 -> <<"Transcribe the audio.">>
      [] e = 2 -> <<"Transcribe the audio.", " Also, extract key takeaways and a summary.">>
      [] e = 3 -> <<"Transcribe the audio.", " Also, extract key takeaways, a summary,",
                    " action items, and a list of questions asked.">>
      [] OTHER -> templates[sel.types[e - 3]].prompt

\* C11: a selector offers Simple, Standard and Detailed in that order and then the
\* user templates in the order they were stored in when it opened; a Select button
\* closes its selector and starts exactly one run, on the selector's audio and with
\* the text of its row as it is: 'Transcribe the audio.' for row 1 whatever is stored,
\* and the empty text for a user template whose text is empty.
C11_SelectorEntries ==
    [][/\ \A i \in (DOMAIN selectors') \ Selectors :
             selectors'[i].types = customTranscriptionTypes
       /\ \A i \in Selectors :
             /\ selectors'[i].types = selectors[i].types
             /\ <<Entries(selectors[i])[1].name, Entries(selectors[i])[2].name,
                   Entries(selectors[i])[3].name>>
                    = << <<"Simple">>, <<"Standard">>, <<"Detailed">> >>
       /\ runs' # runs =>
             /\ Len(runs') = Len(runs) + 1
             /\ \A r \in Runs : runs'[r] = runs[r]
             /\ \E i \in Selectors :
                   /\ selectors[i].open /\ ~selectors'[i].open
                   /\ \A j \in Selectors \ {i} : selectors'[j] = selectors[j]
                   /\ runs'[Len(runs')].row \in 1..(3 + Len(selectors[i].types))
                   /\ runs'[Len(runs')].audioBlob = selectors[i].audioBlob
                   /\ runs'[Len(runs')].prompt
                          = ClaimedText(selectors[i], runs'[Len(runs')].row)]_vars

\* With a user template named Simple stored first and one with an empty text stored
\* second, row 1 started a run with 'Transcribe the audio.' and row 5 one with the
\* empty text.
C11_Witness ==
    /\ Len(customTranscriptionTypes) = 2
    /\ templates[customTranscriptionTypes[1]].name = <<"Simple">>
    /\ templates[customTranscriptionTypes[1]].prompt = <<"p">>
    /\ templates[customTranscriptionTypes[2]].prompt = <<>>
    /\ \E r1, r2 \in Runs :
          /\ runs[r1].row = 1 /\ runs[r1].prompt = <<"Transcribe the audio.">>
          /\ runs[r2].row = 5 /\ runs[r2].prompt = <<>>

\* ------------------------------------------------------------------ failed transcribe (C12)

\* Run r leaves transcribe by a failure in this step.
TranscribeFails(r) == Fails(r) /\ runs[r].pc \in {"encoding", "inferring"}

\* C12: a run issues the inference call at most once, only when its encoding is done,
\* and never after it has failed; the step in which transcribe fails puts the
\* presenter in error, shows one notice, creates no note and leaves the run with no
\* open request; a failed run stays failed, with its one notice and no further call.
C12_NoRetry ==
    [][/\ \A r \in (DOMAIN runs') \ Runs :
             runs'[r].calls = 0 /\ runs'[r].notices = 0 /\ runs'[r].opens = 0
       /\ \A r \in Runs :
             /\ runs'[r].calls <= 1
             /\ runs'[r].calls # runs[r].calls =>
                   runs[r].pc = "encoding" /\ runs'[r].pc = "inferring"
             /\ TranscribeFails(r) =>
                   /\ runs'[r].status = Failed
                   /\ runs'[r].calls = runs[r].calls
                   /\ runs'[r].notices = 1
                   /\ runs'[r].opens = 0
                   /\ vault' = vault
             /\ runs[r].pc = "failed" =>
                   /\ runs'[r].pc = "failed"
                   /\ runs'[r].status = Failed
                   /\ runs'[r].calls = runs[r].calls
                   /\ runs'[r].notices = runs[r].notices
                   /\ runs'[r].opens = runs[r].opens]_vars

\* A run whose one inference call was rejected has ended in error with one notice and
\* no open request, its presenter closed by the timeout, and no note exists.
C12_Witness ==
    \E r \in Runs :
        /\ runs[r].pc = "failed" /\ runs[r].log = <<Transcribing, Failed>>
        /\ runs[r].calls = 1 /\ runs[r].notices = 1 /\ runs[r].opens = 0
        /\ ~runs[r].open /\ ~runs[r].timer
        /\ vault = {}

\* ------------------------------------------------------------------ live payloads (C13)

\* Run r holds an audio payload that is neither saved nor failed.
Live(r) == runs[r].pc \in {"encoding", "inferring", "mkdir", "creating"}

\* C13: at no time do two pipeline runs each hold an audio payload that has not yet
\* been saved or failed.
C13_OneLivePayload == Cardinality({r \in Runs : Live(r)}) <= 1

\* ------------------------------------------------------------------ existing folder (C14)

\* C14: a run that asks for the folder while it exists goes on to the note creation,
\* with the presenter still at saving and the path it derived unchanged, and never to
\* the error state; the failure of createFolder is met only there and is gone once
\* the creation has been attempted.
C14_FolderExistsSwallowed ==
    [][\A r \in Runs :
          /\ (runs[r].pc = "mkdir" /\ folderExists /\ runs'[r].pc # "mkdir") =>
                /\ runs'[r].pc = "creating"
                /\ runs'[r].folderError
                /\ runs'[r].status = Saving
                /\ runs'[r].notices = 0
                /\ filePath(runs'[r]) = filePath(runs[r])
                /\ folderExists'
          /\ runs'[r].folderError => runs'[r].pc = "creating" /\ runs'[r].status = Saving
          /\ (runs[r].folderError /\ CreatesNote(r)) =>
                vault' = vault \cup {filePath(runs[r])}]_vars

\* A first run created the folder and its note; a second run found the folder
\* existing and has its note creation pending.
C14_Witness ==
    \E r1, r2 \in Runs :
        /\ r1 # r2
        /\ runs[r1].pc = "done"
        /\ vault # {}
        /\ runs[r2].pc = "creating" /\ runs[r2].folderError
        /\ runs[r2].log = <<Transcribing, Saving>>

\* ------------------------------------------------------------------ empty recording (C15)

\* C15: the stop event of a capture opens a selector on the blob of the chunks
\* gathered, of length zero when the recorder delivers no data before it stops; a
\* Select button starts a run on the selector's blob whatever its length; and a run
\* whose encoding is done issues the inference call with that blob, so a run
\* encoding an empty blob can always issue it.
C15_EmptyPayloadGoesOn ==
    /\ [](\A r \in Runs : runs[r].pc = "encoding" => ENABLED EncodeOk(r))
    /\ [][/\ \A s \in Captures :
                (captures[s].rec = "stopQueued" /\ captures'[s].rec = "stopped") =>
                    /\ Len(selectors') = Len(selectors) + 1
                    /\ selectors'[Len(selectors')].open
                    /\ selectors'[Len(selectors')].from = s
                    /\ selectors'[Len(selectors')].audioBlob = Sum(audioChunks')
                    /\ (audioChunks = <<>> /\ audioChunks' = <<0>>) =>
                          selectors'[Len(selectors')].audioBlob = 0
          /\ \A r \in (DOMAIN runs') \ Runs :
                /\ runs'[r].pc = "encoding"
                /\ runs'[r].calls = 0
                /\ \E i \in Selectors :
                      /\ selectors[i].open /\ ~selectors'[i].open
                      /\ runs'[r].audioBlob = selectors[i].audioBlob
          /\ \A r \in Runs :
                (runs[r].pc = "encoding" /\ runs'[r].pc = "inferring") =>
                    /\ runs'[r].audioBlob = runs[r].audioBlob
                    /\ runs'[r].calls = 1]_vars

\* A capture was stopped with no data gathered, its selector opened on an empty blob,
\* and the run started from it has issued the inference call with the empty blob.
C15_Witness ==
    \E r \in Runs : \E i \in Selectors :
        /\ selectors[i].from # 0
        /\ captures[selectors[i].from].rec = "stopped"
        /\ selectors[i].audioBlob = 0
        /\ ~selectors[i].open
        /\ audioChunks = <<0>>
        /\ Len(runs) = 1
        /\ runs[r].pc = "inferring" /\ runs[r].audioBlob = 0 /\ runs[r].calls = 1

\* ------------------------------------------------------------------ cancellation (C16)

\* The entry dialog is dismissed in this step: it closes and nothing opens instead.
ChoiceDismissed == choiceOpen' < choiceOpen /\ selectors' = selectors /\ modals' = modals

\* Selector i is dismissed in this step: it closes and no run starts.
SelectorDismissed(i) == selectors[i].open /\ ~selectors'[i].open /\ Len(runs') = Len(runs)

\* The user acts on a dialog, a selector or a presenter in this step.
UserActs ==
    \/ choiceOpen' # choiceOpen
    \/ selectors' # selectors
    \/ currentTranscriptionTitle' \notin {currentTranscriptionTitle, Null}
    \/ \E r \in Runs : runs'[r].dismissed /\ ~runs[r].dismissed

\* What the pipeline has done for run r: where it stands, what the presenter shows and
\* the calls it has made.
Progress(run) == <<run.pc, run.status, run.calls, run.opens, run.notices, run.title, run.now>>

\* C16: dismissing the entry dialog or a selector issues no inference call and
\* creates no note, and a dismissed selector starts no run later; once a run has
\* started, no action of the user changes what it has done, dismissing its presenter
\* included; and whether its presenter is shown or not, a run whose call is pending
\* can go on to save, one whose note creation is pending with the folder there can
\* create the note and request its opening, and a finished run has created its note
\* and requested its opening.
C16_CancelOnlyBeforeCall ==
    /\ [](\A r \in Runs :
             /\ runs[r].pc = "inferring" => ENABLED InferOk(r, 1)
             /\ (runs[r].pc = "creating" /\ folderExists) => ENABLED CreateOk(r)
             /\ runs[r].pc = "done" =>
                   runs[r].calls = 1 /\ runs[r].opens = 1 /\ vault # {})
    /\ [][/\ ChoiceDismissed => runs' = runs /\ vault' = vault
          /\ \A i \in Selectors :
                /\ SelectorDismissed(i) => runs' = runs /\ vault' = vault
                /\ ~selectors[i].open => ~selectors'[i].open
          /\ UserActs =>
                /\ vault' = vault
                /\ \A r \in Runs : Progress(runs'[r]) = Progress(runs[r])]_vars

\* A run whose presenter the user dismissed has gone on to create its note and is done.
C16_Witness ==
    \E r \in Runs :
        /\ runs[r].dismissed
        /\ runs[r].pc = "done"
        /\ runs[r].calls = 1 /\ runs[r].opens = 1
        /\ vault # {}

\* ------------------------------------------------------------------ generated prompts (C17)

\* The templates stored in the settings.
Stored == {customTranscriptionTypes[k] : k \in DOMAIN customTranscriptionTypes}

\* C17: the step that ends a 'Generate with AI' request changes no template but the
\* one whose name the request sent, changes none at all when that template is no
\* longer stored, and a text it stores is the one generated for the name sent, stored
\* in that template.
C17_StoredInRequester ==
    [][\A q \in requests \ requests' :
          /\ \A t \in DOMAIN templates : t # q.type => templates'[t] = templates[t]
          /\ q.type \notin Stored => templates' = templates
          /\ templates' # templates =>
                templates'[q.type].prompt = Generated(q.typeName)]_vars

\* ------------------------------------------------------------------ API key (C18)

\* getUserMedia is called for view m in this step.
RequestsMicrophone(m) == modals'[m].pending > modals[m].pending

\* C18 as claimed: getUserMedia is never called while the API key is empty, and no
\* run, started from a recording or from an uploaded file, has transcribe build its
\* client from an empty key or issue the inference call with one.
C18_NoCallWithoutKey ==
    [][/\ \A m \in Modals : RequestsMicrophone(m) => geminiApiKey # ""
       /\ \A r \in (DOMAIN runs') \ Runs : runs'[r].apiKey # ""
       /\ \A r \in Runs : runs'[r].calls > runs[r].calls => runs[r].apiKey # ""]_vars

\* C18 as amended: getUserMedia is never called while the API key is empty, a start
\* click with an empty key closing the view instead; the key is tested nowhere else:
\* a run builds its client from the key configured when the type is selected, empty
\* or not, keeps it while transcribe runs, and issues its inference call with it.
C18_KeyTestedForMicrophoneOnly ==
    [][/\ \A m \in Modals :
             /\ RequestsMicrophone(m) => geminiApiKey # ""
             /\ (modals[m].ui = "start" /\ modals[m].pending = 0 /\ geminiApiKey = ""
                 /\ modals'[m] # modals[m]) =>
                   /\ ~modals'[m].open
                   /\ modals'[m].pending = 0
                   /\ captures' = captures
       /\ \A s \in (DOMAIN captures') \ Captures : modals[captures'[s].modal].pending > 0
       /\ \A r \in (DOMAIN runs') \ Runs : runs'[r].apiKey = geminiApiKey
       /\ \A r \in Runs :
             /\ runs[r].pc = "encoding" /\ runs'[r].pc = "inferring" =>
                   runs'[r].apiKey = runs[r].apiKey /\ runs'[r].calls = 1
             /\ runs[r].pc = "encoding" /\ runs'[r].pc = "encoding" =>
                   runs'[r].apiKey = runs[r].apiKey]_vars

\* A start click with an empty key has closed a recording view with no capture made,
\* and a run started from an uploaded file has issued its call with the empty key.
C18_Witness ==
    /\ geminiApiKey = ""
    /\ \E m \in Modals : ~modals[m].open /\ modals[m].pending = 0
    /\ captures = <<>>
    /\ \E r \in Runs : \E i \in Selectors :
          /\ selectors[i].from = 0
          /\ runs[r].pc = "inferring" /\ runs[r].calls = 1 /\ runs[r].apiKey = ""

====
